---- MODULE Spec2Model ----
(***************************************************************************)
(* A model of virus_radar's location-resolution and forecasting core:      *)
(*   - Geocoder (src/geocode.py): load_dataframe and geocode,              *)
(*   - find_closest_klaerwerk (src/app.py),                                *)
(*   - add_forecasts (src/app.py),                                         *)
(*   - the script of src/app.py from the location to the site selector,    *)
(*   - LocationManager (src/location_manager.py).                          *)
(*                                                                         *)
(* Text is modelled as a sequence of one-character strings, so that        *)
(* str.lower(), str.upper(), ==, `in` and sorted() are computed character  *)
(* by character.  Coordinates are fixed-point numbers (tenths of a         *)
(* degree), 48.1 being 481.                                                *)
(***************************************************************************)
EXTENDS Integers, Sequences, FiniteSets, TLC

VARIABLES
    file,        \* cities1000/cities1000.txt: the rows as they stand in the file
    data,        \* Geocoder.data: the DataFrame load_dataframe read from it
    args,        \* the positional arguments of the current geocode call
    result,      \* what geocode returned: <<lat, lon>> or <<None, None>>
    hit,         \* index label of the row geocode took the pair from (0: none)
    raised,      \* the exception the current call ended with ("none": returned)
    standort,    \* find_closest_klaerwerk: the column df['standort']
    location,    \* the user_location it is called with: app.py's dict location
                 \* (line 23) and, in LocationManager, self.location
    distinct_standorte,  \* its local frame, one record per distinct site
    closest,     \* the site name it returned (<< >>: nothing returned)
    kpc,         \* the line find_closest_klaerwerk has reached
    df,          \* add_forecasts: the frame it is called with
    forecast_dfs,\* its list of forecast frames
    group_i,     \* the position of its loop in df[facet_col].unique()
    augmented,   \* the frame it returned (<< >>: nothing returned)
    fpc,         \* the line add_forecasts has reached
    bundesland,  \* app.py tab2: the column abwasser['bundesland']
    selected_bundesland, \* what the selectbox 'Bundesland' returned
    klaerwerk_index,     \* the index the selectbox 'Klärwerk' is built with
    ppc,         \* the line the script app.py has reached
    mpc          \* the line LocationManager.__init__ has reached

vars == <<file, data, args, result, hit, raised,
          standort, location, distinct_standorte, closest, kpc,
          df, forecast_dfs, group_i, augmented, fpc,
          bundesland, selected_bundesland, klaerwerk_index, ppc, mpc>>

(***************************************************************************)
(* Bounds of the model.                                                    *)
(***************************************************************************)
\* number of rows of the reference table
NumPlaces == 2

\* number of cells of the column df['standort']
MaxStandorte == 3

\* number of calendar weeks the frame passed to add_forecasts spans at most
MaxWeeks == 5

\* the arguments periods and prediction_horizon of add_forecasts
Periods == 2
PredictionHorizon == 2

(***************************************************************************)
(* Python values.                                                          *)
(***************************************************************************)
\* None, as a number no coordinate and no population takes
None == -9999

\* the float NaN, as a number no coordinate and no distance takes
NaN == -9998

\* a missing cell of an object column (NaN): read_csv never yields an empty
\* string, so the empty sequence is free to stand for it; as an argument it
\* also stands for None, which `if country:` treats like ''
NA == << >>

(***************************************************************************)
(* str.lower / str.upper, character by character.                          *)
(***************************************************************************)
LowerOf ==
    ("A" :> "a") @@ ("B" :> "b") @@ ("C" :> "c") @@ ("D" :> "d") @@
    ("E" :> "e") @@ ("N" :> "n") @@ ("S" :> "s") @@ ("U" :> "u") @@
    ("Y" :> "y")

UpperOf ==
    ("a" :> "A") @@ ("b" :> "B") @@ ("c" :> "C") @@ ("d" :> "D") @@
    ("e" :> "E") @@ ("n" :> "N") @@ ("s" :> "S") @@ ("u" :> "U") @@
    ("y" :> "Y")

lower(s) == [i \in 1..Len(s) |-> IF s[i] \in DOMAIN LowerOf THEN LowerOf[s[i]] ELSE s[i]]

upper(s) == [i \in 1..Len(s) |-> IF s[i] \in DOMAIN UpperOf THEN UpperOf[s[i]] ELSE s[i]]

\* Python's `pat in x` on strings
contains(x, pat) ==
    \E i \in 0..(Len(x) - Len(pat)) : SubSeq(x, i + 1, i + Len(pat)) = pat

(***************************************************************************)
(* The reference table (GeoNames cities1000), src/geocode.py 115-153.      *)
(* A row keeps the seven columns geocode reads.                            *)
(***************************************************************************)
\* the strings pandas.read_csv reads as a missing value when, as here, neither
\* na_values nor keep_default_na is passed
NaValues ==
    { << >>,
      <<"#","N","/","A">>,
      <<"#","N","/","A"," ","N","/","A">>,
      <<"#","N","A">>,
      <<"-","1",".","#","I","N","D">>,
      <<"-","1",".","#","Q","N","A","N">>,
      <<"-","N","a","N">>,
      <<"-","n","a","n">>,
      <<"1",".","#","I","N","D">>,
      <<"1",".","#","Q","N","A","N">>,
      <<"<","N","A",">">>,
      <<"N","/","A">>,
      <<"N","A">>,
      <<"N","U","L","L">>,
      <<"N","a","N">>,
      <<"N","o","n","e">>,
      <<"n","/","a">>,
      <<"n","a","n">>,
      <<"n","u","l","l">> }

\* one text cell as read_csv delivers it
read_cell(s) == IF s \in NaValues THEN NA ELSE s

\* Geocoder.load_dataframe: the text columns pass through the missing-value
\* conversion, the numeric ones are parsed as they stand
load_dataframe(f) ==
    [i \in 1..Len(f) |->
        [name           |-> read_cell(f[i].name),
         asciiname      |-> read_cell(f[i].asciiname),
         alternatenames |-> read_cell(f[i].alternatenames),
         country_code   |-> read_cell(f[i].country_code),
         latitude       |-> f[i].latitude,
         longitude      |-> f[i].longitude,
         population     |-> f[i].population]]

(***************************************************************************)
(* Geocoder.geocode, src/geocode.py 155-195.  A frame derived from the     *)
(* table is the sequence of the index labels of its rows, in table order.  *)
(***************************************************************************)
\* data = self.data.copy()
all_rows(d) == [i \in 1..Len(d) |-> i]

\* country_filter with the filtered frame dropped: matching runs on the full table
country_filter_dropped(d, rows, country) == rows

\* if country: data = data[data['country_code'].str.lower() == country.lower()]
country_filter(d, rows, country) ==
    LET keep(i) == /\ d[i].country_code # NA
                   /\ lower(d[i].country_code) = lower(country)
    IN  IF country # NA THEN SelectSeq(rows, keep) ELSE rows

\* data[data['name'].str.lower() == city.lower()]
match_name(d, rows, city) ==
    LET keep(i) == d[i].name # NA /\ lower(d[i].name) = lower(city)
    IN  SelectSeq(rows, keep)

\* data[data['asciiname'].str.lower() == city.lower()]
match_asciiname(d, rows, city) ==
    LET keep(i) == d[i].asciiname # NA /\ lower(d[i].asciiname) = lower(city)
    IN  SelectSeq(rows, keep)

\* match_alternatenames with na=True: a row without alternate names matches
match_alternatenames_na_true(d, rows, city) ==
    LET keep(i) == \/ d[i].alternatenames = NA
                   \/ contains(upper(d[i].alternatenames), upper(lower(city)))
    IN  SelectSeq(rows, keep)

\* data[data['alternatenames'].str.contains(city.lower(), case=False,
\*                                          na=False, regex=False)]
\* with case=False and regex=False pandas tests  pat.upper() in x.upper()
\* on the whole comma-separated cell
match_alternatenames(d, rows, city) ==
    LET keep(i) == /\ d[i].alternatenames # NA
                   /\ contains(upper(d[i].alternatenames), upper(lower(city)))
    IN  SelectSeq(rows, keep)

\* candidates without the `if result.empty` guards: the rows any stage matches
candidates_all_stages(d, city, country) ==
    LET rows == country_filter(d, all_rows(d), country)
        keep(i) == \/ i \in {match_name(d, rows, city)[k] :
                                k \in 1..Len(match_name(d, rows, city))}
                   \/ i \in {match_asciiname(d, rows, city)[k] :
                                k \in 1..Len(match_asciiname(d, rows, city))}
                   \/ i \in {match_alternatenames(d, rows, city)[k] :
                                k \in 1..Len(match_alternatenames(d, rows, city))}
    IN  SelectSeq(rows, keep)

\* lines 172-183: the country filter, then the three matching stages
candidates(d, city, country) ==
    LET rows == country_filter(d, all_rows(d), country)
        r1   == match_name(d, rows, city)
        r2   == match_asciiname(d, rows, city)
    IN  IF r1 # << >> THEN r1
        ELSE IF r2 # << >> THEN r2
        ELSE match_alternatenames(d, rows, city)

\* sort_heads with ascending=True: the least populated rows come out first
sort_heads_ascending(d, res) ==
    IF Len(res) > 1
    THEN {res[k] : k \in {j \in 1..Len(res) :
                            \A m \in 1..Len(res) :
                                d[res[j]].population <= d[res[m]].population}}
    ELSE {res[k] : k \in 1..Len(res)}

\* lines 186-188: result.sort_values(by='population', ascending=False).head(1)
\* sort_values sorts with its default kind, quicksort, which is not stable: the
\* rows that may come out first are those no row exceeds in population
sort_heads(d, res) ==
    IF Len(res) > 1
    THEN {res[k] : k \in {j \in 1..Len(res) :
                            \A m \in 1..Len(res) :
                                d[res[m]].population <= d[res[j]].population}}
    ELSE {res[k] : k \in 1..Len(res)}

\* lines 190-195: the pair geocode returns when it takes row r (0: result.empty)
coordinates(d, r) ==
    IF r # 0 THEN <<d[r].latitude, d[r].longitude>> ELSE <<None, None>>

\* the rows geocode(city, country) may take its pair from
geocode_rows(d, city, country) ==
    LET res == candidates(d, city, country)
    IN  IF res # << >> THEN sort_heads(d, res) ELSE {0}

\* def geocode(self, city, country=None): binding of the positional arguments
MaxPositional == 2

\* the call binds when self plus the positional arguments fit (city, country)
binds(a) == Len(a) >= 1 /\ Len(a) <= MaxPositional

\* the country a bound call runs with: the second argument, or the default None
country_of(a) == IF Len(a) >= 2 THEN a[2] ELSE NA

(***************************************************************************)
(* Inputs of the geocoder's specification.                                 *)
(***************************************************************************)
sAb == <<"A", "b">>
sab == <<"a", "b">>
sB  == <<"B">>
sC  == <<"C">>
sD  == <<"D">>
sca == <<"c", ",", "a">>
sCAb == <<"C", ",", "A", "b">>
sDE == <<"D", "E">>
sde == <<"d", "e">>
sUS == <<"U", "S">>
sNA == <<"N", "A">>
sBY == <<"B", "Y">>

\* name, ASCII name and alternate names of the places of the table: a place
\* whose three names agree, one reached by its ASCII name only, one reached by
\* an alternate name only
PlaceNames ==
    { [name |-> sAb, asciiname |-> sAb, alternatenames |-> << >>],
      [name |-> sB,  asciiname |-> sAb, alternatenames |-> << >>],
      [name |-> sB,  asciiname |-> sB,  alternatenames |-> sCAb] }

\* country codes of the file: Germany, the United States, Namibia
CountryCodes == {sDE, sUS, sNA}

Populations == {100, 500000}

\* the coordinates of row i of the table; every row has its own
RowLatitude(i) == 470 + 10 * i
RowLongitude(i) == 100 + 10 * i

Files ==
    { [i \in 1..NumPlaces |->
          [name           |-> n[i].name,
           asciiname      |-> n[i].asciiname,
           alternatenames |-> n[i].alternatenames,
           country_code   |-> c[i],
           latitude       |-> RowLatitude(i),
           longitude      |-> RowLongitude(i),
           population     |-> p[i]]] :
      n \in [1..NumPlaces -> PlaceNames],
      c \in [1..NumPlaces -> CountryCodes],
      p \in [1..NumPlaces -> Populations] }

\* the cities and countries geocode is asked for
Cities == {sAb, sab, sB, sC, sca, sD}
Countries == {NA, sDE, sde, sUS, sNA}

\* geocode(city) and geocode(city, country)
CallArgs == {<<c>> : c \in Cities} \cup {<<c, k>> : c \in Cities, k \in Countries}

\* the (city, state, country) triples of test_geocode
TestCases == {<<c, st, k>> : c \in {sAb, sab, sC}, st \in {NA, sBY}, k \in {NA, sDE}}

(***************************************************************************)
(* The geocoder's specification: the table is loaded at construction, then *)
(* geocode is called any number of times.                                  *)
(***************************************************************************)
tableVars == <<file, data>>
callVars == <<args, result, hit, raised>>
closestVars == <<standort, location, distinct_standorte, closest, kpc>>

forecastVars == <<df, forecast_dfs, group_i, augmented, fpc>>

pageVars == <<bundesland, selected_bundesland, klaerwerk_index, ppc, mpc>>

\* neither the script nor a LocationManager is running
PageIdle ==
    /\ bundesland = << >>
    /\ selected_bundesland = << >>
    /\ klaerwerk_index = 0
    /\ ppc = "idle"
    /\ mpc = "idle"

\* add_forecasts is not running
ForecastIdle ==
    /\ df = << >>
    /\ forecast_dfs = << >>
    /\ group_i = 0
    /\ augmented = << >>
    /\ fpc = "idle"

\* find_closest_klaerwerk is not running
ClosestIdle ==
    /\ standort = << >>
    /\ location = [latitude |-> None, longitude |-> None]
    /\ distinct_standorte = << >>
    /\ closest = << >>
    /\ kpc = "idle"

\* Geocoder.__init__ (lines 58-71): self.data = self.load_dataframe(...)
Init ==
    /\ file \in Files
    /\ data = load_dataframe(file)
    /\ args = << >>
    /\ result = << >>
    /\ hit = 0
    /\ raised = "none"
    /\ ClosestIdle
    /\ ForecastIdle
    /\ PageIdle

\* one call geocoder.geocode(*a)
GeocodeCall(d, a) ==
    /\ args' = a
    /\ IF binds(a)
       THEN \E r \in geocode_rows(d, a[1], country_of(a)) :
                /\ hit' = r
                /\ result' = coordinates(d, r)
                /\ raised' = "none"
       ELSE /\ hit' = 0
            /\ result' = << >>
            /\ raised' = "TypeError"

\* a caller of geocode(city) or geocode(city, country): app.py 221, geocode.py 201
Geocode ==
    /\ args = << >>
    /\ \E a \in CallArgs : GeocodeCall(data, a)
    /\ UNCHANGED <<pageVars, tableVars, closestVars, forecastVars>>

\* test_geocode.py 18-19: result = geocoder.geocode(city, state, country)
TestGeocode ==
    /\ args = << >>
    /\ \E t \in TestCases : GeocodeCall(data, t)
    /\ UNCHANGED <<pageVars, tableVars, closestVars, forecastVars>>

\* the caller takes the returned pair and goes on to its next call; a call that
\* raised has ended the caller (nothing in the sources catches)
Continue ==
    /\ args # << >>
    /\ raised = "none"
    /\ args' = << >>
    /\ result' = << >>
    /\ hit' = 0
    /\ UNCHANGED <<pageVars, raised, tableVars, closestVars, forecastVars>>

Next == Geocode \/ TestGeocode \/ Continue

Spec == Init /\ [][Next]_vars

(***************************************************************************)
(* The geocoder's claims.  They speak of the call the state holds: the     *)
(* city and country it was made with, and the places of the table.         *)
(***************************************************************************)
called == args # << >>
returned == called /\ raised = "none"
city_arg == args[1]
country_arg == country_of(args)
NotFound == <<None, None>>
stored(i) == <<file[i].latitude, file[i].longitude>>

\* place i passes the country filter of the call
in_country(i) ==
    \/ country_arg = NA
    \/ data[i].country_code # NA /\ lower(data[i].country_code) = lower(country_arg)

\* place i matches the city of the call at stage 1, 2, 3
name_match(i) == data[i].name # NA /\ lower(data[i].name) = lower(city_arg)
ascii_match(i) == data[i].asciiname # NA /\ lower(data[i].asciiname) = lower(city_arg)
alt_match(i) ==
    /\ data[i].alternatenames # NA
    /\ contains(lower(data[i].alternatenames), lower(city_arg))

stage1 == {i \in 1..Len(data) : in_country(i) /\ name_match(i)}
stage2 == {i \in 1..Len(data) : in_country(i) /\ ascii_match(i)}
stage3 == {i \in 1..Len(data) : in_country(i) /\ alt_match(i)}

\* the candidates of the first stage that has any
survivors ==
    IF stage1 # {} THEN stage1 ELSE IF stage2 # {} THEN stage2 ELSE stage3

\* C5: geocode matches in strict stage order - name, then asciiname only if no
\* name matched, then alternatenames only if neither matched; the place returned
\* always belongs to the first stage that has a candidate, whatever the
\* population of the candidates of later stages.
C5_StageOrder ==
    returned =>
        /\ stage1 # {} => hit \in stage1
        /\ (stage1 = {} /\ stage2 # {}) => hit \in stage2
        /\ (stage1 = {} /\ stage2 = {} /\ stage3 # {}) => hit \in stage3

\* C5 witness: a name match was returned although a place matching only at a
\* later stage has a larger population.
C5_Witness ==
    /\ returned
    /\ hit \in stage1
    /\ \E j \in (stage2 \cup stage3) \ stage1 :
           data[j].population > data[hit].population

C7_WitnessEmptyCountry ==
    /\ returned
    /\ country_arg # NA
    /\ \A i \in 1..Len(data) : ~in_country(i)
    /\ result = NotFound

\* C8 as stated, in its weakest reading: geocode called with the name and the
\* country code of a row of the file, as they stand in the file, returns the
\* coordinate stored for a place of that name and country code.
C8_VerbatimPairResolves ==
    \A i \in 1..Len(file) :
        (called /\ args = <<file[i].name, file[i].country_code>>) =>
            /\ raised = "none"
            /\ \E j \in 1..Len(file) :
                   /\ file[j].name = file[i].name
                   /\ file[j].country_code = file[i].country_code
                   /\ result = stored(j)

\* C9 as stated: geocode called with a city, a state and a country, the city
\* being in the table under its name, ASCII name or an alternate name (within
\* the country, when one is given), completes and returns a pair other than
\* (None, None).
C9_TestCallReturnsPair ==
    (/\ called
     /\ Len(args) = 3
     /\ \E i \in 1..Len(data) :
            /\ args[3] # NA => lower(file[i].country_code) = lower(args[3])
            /\ name_match(i) \/ ascii_match(i) \/ alt_match(i)) =>
        /\ raised = "none"
        /\ result # NotFound
        /\ result # << >>

\* C10: with a country given, the pair returned is the one stored for a place
\* whose country code equals the given one ignoring case; when the only places
\* matching the city are of other countries the result is (None, None).
C10_CountryRespected ==
    (returned /\ country_arg # NA) =>
        /\ hit # 0 =>
               /\ lower(file[hit].country_code) = lower(country_arg)
               /\ result = stored(hit)
        /\ (\A i \in 1..Len(file) :
                (name_match(i) \/ ascii_match(i) \/ alt_match(i)) =>
                    lower(file[i].country_code) # lower(country_arg)) =>
               result = NotFound

\* C10 witness: the only place matching the city is of another country, and
\* (None, None) was returned.
C10_Witness ==
    /\ returned
    /\ country_arg # NA
    /\ \E i \in 1..Len(data) : name_match(i) /\ ~in_country(i)
    /\ \A i \in 1..Len(data) :
           (name_match(i) \/ ascii_match(i) \/ alt_match(i)) => ~in_country(i)
    /\ result = NotFound

(***************************************************************************)
(* find_closest_klaerwerk, src/app.py 212-226.                             *)
(***************************************************************************)
\* code points of the characters of the site names and of the codes of the
\* Bundeslaender, for sorted()
CodePoint ==
    ("A" :> 65) @@ ("B" :> 66) @@ ("D" :> 68) @@ ("E" :> 69) @@ ("H" :> 72) @@
    ("I" :> 73) @@ ("L" :> 76) @@ ("M" :> 77) @@ ("N" :> 78) @@ ("P" :> 80) @@
    ("R" :> 82) @@ ("S" :> 83) @@ ("T" :> 84) @@ ("V" :> 86) @@ ("W" :> 87) @@
    ("Y" :> 89) @@ ("b" :> 98)

\* Python's a < b on strings: at the first position where they differ the code
\* point of a is the smaller, or a is a proper prefix of b
str_lt(a, b) ==
    \E k \in 1..(Len(a) + 1) :
        /\ \A j \in 1..(k - 1) : j <= Len(b) /\ a[j] = b[j]
        /\ \/ k = Len(a) + 1 /\ k <= Len(b)
           \/ k <= Len(a) /\ k <= Len(b) /\ CodePoint[a[k]] < CodePoint[b[k]]

\* line 218: sorted(df['standort'].dropna().unique())
sorted_unique(col) ==
    LET S == {col[k] : k \in 1..Len(col)} \ {NA}
    IN  CHOOSE q \in [1..Cardinality(S) -> S] :
            \A i, j \in 1..Cardinality(S) : i < j => str_lt(q[i], q[j])

\* lines 222-223: the columns 'latitude' and 'longitude' hold floats, with NaN
\* for a site geocode answered (None, None) for; only when every site got
\* (None, None) do they stay object columns of None
is_object(frame) ==
    Len(frame) > 0 /\ \A k \in 1..Len(frame) : frame[k].latitude = None

\* the largest r with r * r <= x, searched between lo and hi
RECURSIVE isqrt_between(_, _, _)
isqrt_between(x, lo, hi) ==
    IF lo >= hi THEN lo
    ELSE LET mid == (lo + hi + 1) \div 2
         IN  IF mid * mid <= x THEN isqrt_between(x, mid, hi)
             ELSE isqrt_between(x, lo, mid - 1)

\* digits a distance keeps below the unit of the coordinates: ** 0.5 is
\* computed in fixed point, fine enough to tell apart the roots of any two
\* squared distances the inputs produce
DistanceScale == 100

\* x ** 0.5
power_half(x) == isqrt_between(x * DistanceScale * DistanceScale, 0, 46340)

\* line 224, one row: ((latitude - user_location['latitude']) ** 2 +
\*   (longitude - user_location['longitude']) ** 2) ** 0.5; NaN propagates
distance_of(lat, lon, loc) ==
    IF lat = NaN \/ lat = None THEN NaN
    ELSE power_half((lat - loc.latitude) * (lat - loc.latitude)
                    + (lon - loc.longitude) * (lon - loc.longitude))

\* idxmin turned into idxmax
idxmax(frame) ==
    CHOOSE k \in 1..Len(frame) :
        /\ frame[k].distance # NaN
        /\ \A j \in 1..Len(frame) :
               frame[j].distance # NaN =>
                   \/ frame[j].distance < frame[k].distance
                   \/ frame[j].distance = frame[k].distance /\ k <= j

\* line 225: distinct_standorte['distance'].idxmin() on a float column with a
\* value that is not NaN: the first label of the least distance, NaN skipped
idxmin(frame) ==
    CHOOSE k \in 1..Len(frame) :
        /\ frame[k].distance # NaN
        /\ \A j \in 1..Len(frame) :
               frame[j].distance # NaN =>
                   \/ frame[k].distance < frame[j].distance
                   \/ frame[k].distance = frame[j].distance /\ k <= j

(***************************************************************************)
(* Inputs of find_closest_klaerwerk's specification.                       *)
(***************************************************************************)
\* the reference table: a place named Ab and a place named B, each in Germany
\* or not, at one of two positions
SiteFiles ==
    { << [name |-> sAb, asciiname |-> sAb, alternatenames |-> << >>,
          country_code |-> c1, latitude |-> p1[1], longitude |-> p1[2],
          population |-> 100],
         [name |-> sB, asciiname |-> sB, alternatenames |-> << >>,
          country_code |-> c2, latitude |-> p2[1], longitude |-> p2[2],
          population |-> 100] >> :
      c1 \in {sDE, sUS}, c2 \in {sDE, sUS},
      p1 \in {<<480, 110>>, <<500, 120>>},
      p2 \in {<<525, 134>>, <<480, 110>>} }

\* the cells of df['standort']: two sites of the table, a site the table does
\* not know, and the empty cell
StandortCells == {sAb, sB, sD, NA}

StandortColumns ==
    UNION {[1..n -> StandortCells] : n \in 0..MaxStandorte}

\* user_location: a coordinate, or latitude and longitude None
UserLocations ==
    { [latitude |-> 481, longitude |-> 112],
      [latitude |-> 520, longitude |-> 130],
      [latitude |-> None, longitude |-> None] }

(***************************************************************************)
(* The specification of one call find_closest_klaerwerk(df, user_location).*)
(***************************************************************************)
InitClosest ==
    /\ file \in SiteFiles
    /\ data = load_dataframe(file)
    /\ args = << >>
    /\ result = << >>
    /\ hit = 0
    /\ raised = "none"
    /\ standort \in StandortColumns
    /\ location \in UserLocations
    /\ distinct_standorte = << >>
    /\ closest = << >>
    /\ kpc = "call"
    /\ ForecastIdle
    /\ PageIdle

\* lines 216-220: the geocoder is built, the distinct site names are sorted
\* and made a frame
DistinctStandorte ==
    /\ kpc = "call"
    /\ distinct_standorte' =
           LET q == sorted_unique(standort)
           IN  [k \in 1..Len(q) |-> [standort |-> q[k]]]
    /\ kpc' = "geocode"
    /\ UNCHANGED <<pageVars, tableVars, callVars, forecastVars, standort, location, closest>>

\* lines 221-223: every site is geocoded within DE; the pair is split into the
\* columns latitude and longitude
GeocodeStandorte ==
    /\ kpc = "geocode"
    /\ \E r \in [1..Len(distinct_standorte) -> 0..Len(data)] :
           /\ \A k \in 1..Len(distinct_standorte) :
                  r[k] \in geocode_rows(data, distinct_standorte[k].standort, sDE)
           /\ distinct_standorte' =
                  LET none == \A k \in 1..Len(r) : r[k] = 0
                      cell(v) == IF v # None THEN v
                                 ELSE IF none THEN None ELSE NaN
                  IN  [k \in 1..Len(distinct_standorte) |->
                          [standort  |-> distinct_standorte[k].standort,
                           latitude  |-> cell(coordinates(data, r[k])[1]),
                           longitude |-> cell(coordinates(data, r[k])[2])]]
    /\ kpc' = "distance"
    /\ UNCHANGED <<pageVars, tableVars, callVars, forecastVars, standort, location, closest>>

\* line 224: the column distance.  A float column minus None raises TypeError;
\* on an object column of None pandas falls back to the element-wise operation
\* on the cells that are not null, of which there is none, and fills NaN
ComputeDistance ==
    /\ kpc = "distance"
    /\ IF /\ location.latitude = None \/ location.longitude = None
          /\ Len(distinct_standorte) > 0
          /\ ~is_object(distinct_standorte)
       THEN /\ raised' = "TypeError"
            /\ kpc' = "raised"
            /\ UNCHANGED distinct_standorte
       ELSE /\ distinct_standorte' =
                   [k \in 1..Len(distinct_standorte) |->
                       [standort  |-> distinct_standorte[k].standort,
                        latitude  |-> distinct_standorte[k].latitude,
                        longitude |-> distinct_standorte[k].longitude,
                        distance  |-> distance_of(distinct_standorte[k].latitude,
                                                  distinct_standorte[k].longitude,
                                                  location)]]
            /\ kpc' = "idxmin"
            /\ UNCHANGED raised
    /\ UNCHANGED <<pageVars, tableVars, forecastVars, args, result, hit, standort, location,
                   closest>>

\* lines 225-226: idxmin of an empty column raises ValueError, of an object
\* column TypeError; otherwise the site of the least distance is returned
ClosestKlaerwerk ==
    /\ kpc = "idxmin"
    /\ IF Len(distinct_standorte) = 0
       THEN raised' = "ValueError" /\ kpc' = "raised" /\ UNCHANGED closest
       ELSE IF is_object(distinct_standorte)
       THEN raised' = "TypeError" /\ kpc' = "raised" /\ UNCHANGED closest
       ELSE /\ closest' = distinct_standorte[idxmin(distinct_standorte)].standort
            /\ kpc' = "returned"
            /\ UNCHANGED raised
    /\ UNCHANGED <<pageVars, tableVars, forecastVars, args, result, hit, standort, location,
                   distinct_standorte>>

NextClosest ==
    DistinctStandorte \/ GeocodeStandorte \/ ComputeDistance \/ ClosestKlaerwerk

SpecClosest == InitClosest /\ [][NextClosest]_vars

(***************************************************************************)
(* The claims of find_closest_klaerwerk.                                   *)
(***************************************************************************)
\* the call has ended, by return or by exception
closest_ended == kpc \in {"returned", "raised"}

\* the caller passed a coordinate
location_given == location.latitude # None /\ location.longitude # None

\* row k of the frame is a site geocode found a coordinate for
resolves(k) ==
    distinct_standorte[k].latitude # None /\ distinct_standorte[k].latitude # NaN

\* the squared planar distance of row k to the user, on the raw coordinates
squared_distance(k) ==
    (distinct_standorte[k].latitude - location.latitude)
        * (distinct_standorte[k].latitude - location.latitude)
    + (distinct_standorte[k].longitude - location.longitude)
        * (distinct_standorte[k].longitude - location.longitude)

\* C2 as stated: a site that resolves to NotFound is removed before any
\* distance is computed - once the distance column exists no row of an
\* unresolved site is in the frame and no row carries a null distance - and
\* such a site is never returned.
C2_UnresolvedFilteredOut ==
    /\ kpc \in {"idxmin", "returned"} =>
           \A k \in 1..Len(distinct_standorte) :
               resolves(k) /\ distinct_standorte[k].distance # NaN
    /\ kpc = "returned" =>
           \E k \in 1..Len(distinct_standorte) :
               resolves(k) /\ distinct_standorte[k].standort = closest

\* C3 as stated: when no site resolves to a coordinate (no site at all, or
\* every site NotFound) and the user coordinate is given, the call returns (a
\* value standing for NotFound) and does not raise.
C3_NotFoundReturned ==
    (/\ closest_ended
     /\ location_given
     /\ \A k \in 1..Len(distinct_standorte) : ~resolves(k)) =>
        kpc = "returned" /\ raised = "none"

\* C4: when the user coordinate is given and at least one site resolves, the
\* call returns a resolved site whose squared planar distance to the user is at
\* most that of every other resolved site; the site found by the distance (the
\* square root) is the one the squared distance finds, the first in the sorted
\* site list among the nearest.
C4_ReturnsNearest ==
    (/\ closest_ended
     /\ location_given
     /\ \E k \in 1..Len(distinct_standorte) : resolves(k)) =>
        /\ kpc = "returned"
        /\ raised = "none"
        /\ \E k \in 1..Len(distinct_standorte) :
               /\ distinct_standorte[k].standort = closest
               /\ resolves(k)
               /\ \A j \in 1..Len(distinct_standorte) :
                      resolves(j) =>
                          \/ squared_distance(k) < squared_distance(j)
                          \/ squared_distance(k) = squared_distance(j) /\ k <= j

\* C4 witness: with A at (48.0, 11.0), B at (52.5, 13.4) and the user at
\* (48.1, 11.2), A was returned.
C4_Witness ==
    /\ kpc = "returned"
    /\ location = [latitude |-> 481, longitude |-> 112]
    /\ Len(distinct_standorte) >= 2
    /\ distinct_standorte[1].standort = sAb
    /\ distinct_standorte[1].latitude = 480 /\ distinct_standorte[1].longitude = 110
    /\ distinct_standorte[2].standort = sB
    /\ distinct_standorte[2].latitude = 525 /\ distinct_standorte[2].longitude = 134
    /\ closest = sAb

\* C4 second witness: the nearest site is not the first of the list, and an
\* unresolved site stands in the list as well.
C4_WitnessSecondSite ==
    /\ kpc = "returned"
    /\ closest = sB
    /\ \E k \in 1..Len(distinct_standorte) :
           distinct_standorte[k].standort = sAb /\ resolves(k)
    /\ \E k \in 1..Len(distinct_standorte) : ~resolves(k)

(***************************************************************************)
(* add_forecasts, src/app.py 125-160.  A frame is the sequence of its      *)
(* rows; Datum, the index, is a day number on which the Fridays are the    *)
(* multiples of 7.  The frame has the facet column and one value column y  *)
(* (every caller passes one column to forecast); y_forecast is the column  *)
(* col + '_forecast'.                                                      *)
(***************************************************************************)
\* days between two dates of the frequency 'W-FRI'
DaysPerWeek == 7

\* the value that stands for a point forecast of a fitted model; the numbers
\* a fit computes are not modelled
Predicted == 1

\* the positions 1..Len(frame) as a sequence
positions(frame) == [k \in 1..Len(frame) |-> k]

\* line 135: df[facet_col].unique(), the values in order of first appearance
unique(frame) ==
    LET first(k) == \A j \in 1..(k - 1) : frame[j].facet # frame[k].facet
        firsts   == SelectSeq(positions(frame), first)
    IN  [i \in 1..Len(firsts) |-> frame[firsts[i]].facet]

\* line 136: df[df[facet_col] == illness]
rows_of(frame, illness) ==
    LET keep(r) == r.facet = illness
    IN  SelectSeq(frame, keep)

\* asfreq reindexes, which pandas refuses on an index with duplicate labels
has_duplicate_dates(rows) ==
    \E i, j \in 1..Len(rows) : i # j /\ rows[i].Datum = rows[j].Datum

\* line 138: df_illness.asfreq('W-FRI'), column y: one cell for every Friday
\* from the first to the last date of the rows, NaN where no row has that date
asfreq(rows) ==
    LET dates == {rows[k].Datum : k \in 1..Len(rows)}
        lo    == CHOOSE d \in dates : \A e \in dates : d <= e
        hi    == CHOOSE d \in dates : \A e \in dates : e <= d
        start == lo + ((DaysPerWeek - (lo % DaysPerWeek)) % DaysPerWeek)
        n     == IF hi >= start THEN ((hi - start) \div DaysPerWeek) + 1 ELSE 0
    IN  [k \in 1..n |->
            LET d == start + DaysPerWeek * (k - 1)
            IN  [Datum |-> d,
                 y     |-> IF d \in dates
                           THEN rows[CHOOSE i \in 1..Len(rows) : rows[i].Datum = d].y
                           ELSE NaN]]

\* lines 141-148: ExponentialSmoothing(..., seasonal_periods=periods,
\* trend="add", seasonal="add", initialization_method="estimated").fit().
\* The initial seasonal state needs two full cycles: with fewer than
\* 2 * periods cells the library raises ValueError.  With a NaN cell the fit
\* either fails or yields NaN forecasts, as the library version has it.
fit_outcomes(series, periods) ==
    IF Len(series) < 2 * periods THEN {"ValueError"}
    ELSE IF \E k \in 1..Len(series) : series[k].y = NaN THEN {"ValueError", "nan"}
    ELSE {"fitted"}

\* a forecast that starts on the last date of the resampled group instead of
\* the date after it
forecast_frame_from_last(series, illness, outcome, horizon) ==
    [k \in 1..horizon |->
        [Datum      |-> series[Len(series)].Datum + DaysPerWeek * (k - 1),
         facet      |-> illness,
         y_forecast |-> IF outcome = "fitted" THEN Predicted ELSE NaN]]

\* lines 151-155: model.forecast(prediction_horizon) as a frame with the column
\* y_forecast, the dates following the last date of the resampled group, and
\* the facet column set to illness
forecast_frame(series, illness, outcome, horizon) ==
    [k \in 1..horizon |->
        [Datum      |-> series[Len(series)].Datum + DaysPerWeek * k,
         facet      |-> illness,
         y_forecast |-> IF outcome = "fitted" THEN Predicted ELSE NaN]]

RECURSIVE flatten(_)
flatten(frames) ==
    IF frames = << >> THEN << >> ELSE Head(frames) \o flatten(Tail(frames))

\* pd.concat(forecast_dfs): the concatenation with the frame left out
concat_forecasts_only(frame, frames) ==
    LET fc == flatten(frames)
    IN  [k \in 1..Len(fc) |->
            [Datum |-> fc[k].Datum, facet |-> fc[k].facet,
             y |-> NaN, y_forecast |-> fc[k].y_forecast]]

\* a concatenation that writes the forecast into the value column as well
concat_merged(frame, frames) ==
    [k \in 1..Len(frame) |->
        [Datum |-> frame[k].Datum, facet |-> frame[k].facet,
         y |-> frame[k].y, y_forecast |-> NaN]]
    \o
    LET fc == flatten(frames)
    IN  [k \in 1..Len(fc) |->
            [Datum |-> fc[k].Datum, facet |-> fc[k].facet,
             y |-> fc[k].y_forecast, y_forecast |-> fc[k].y_forecast]]

\* line 159: pd.concat([df] + forecast_dfs, join='outer'): the rows of df, then
\* those of the forecast frames, over the union of the columns
concat(frame, frames) ==
    [k \in 1..Len(frame) |->
        [Datum |-> frame[k].Datum, facet |-> frame[k].facet,
         y |-> frame[k].y, y_forecast |-> NaN]]
    \o
    LET fc == flatten(frames)
    IN  [k \in 1..Len(fc) |->
            [Datum |-> fc[k].Datum, facet |-> fc[k].facet,
             y |-> NaN, y_forecast |-> fc[k].y_forecast]]

(***************************************************************************)
(* Inputs of add_forecasts' specification.                                 *)
(***************************************************************************)
\* the values of the facet column, in the order the rows of a week come in
Facets == <<"ARE", "ILI">>

\* the weekdays the dates of a facet value's rows fall on, counted from
\* Friday: 0 is a Friday, 1 a Saturday.  add_forecasts takes the index of df as
\* it comes (line 136), whatever its weekday
Weekdays == {0, 1}

\* the frame in which facet Facets[f] has a row in the weeks w[f], dated on the
\* weekday o[f] of its week: the rows come week by week, each with a value of
\* its own
frame_of(w, o) ==
    LET slots   == [s \in 1..(MaxWeeks * Len(Facets)) |-> s]
        week(s) == (s - 1) \div Len(Facets)
        fct(s)  == ((s - 1) % Len(Facets)) + 1
        keep(s) == week(s) \in w[fct(s)]
        kept    == SelectSeq(slots, keep)
    IN  [i \in 1..Len(kept) |->
            [Datum |-> DaysPerWeek * week(kept[i]) + o[fct(kept[i])],
             facet |-> Facets[fct(kept[i])],
             y     |-> 10 * week(kept[i]) + fct(kept[i])]]

InputFrames ==
    {frame_of(w, o) : w \in [1..Len(Facets) -> SUBSET (0..(MaxWeeks - 1))],
                      o \in [1..Len(Facets) -> Weekdays]}

(***************************************************************************)
(* The specification of one call add_forecasts(df, ['y'], 'facet',         *)
(* PredictionHorizon, Periods).                                            *)
(***************************************************************************)
InitForecast ==
    /\ file = << >>
    /\ data = << >>
    /\ args = << >>
    /\ result = << >>
    /\ hit = 0
    /\ raised = "none"
    /\ ClosestIdle
    /\ df \in InputFrames
    /\ forecast_dfs = << >>
    /\ group_i = 1
    /\ augmented = << >>
    /\ fpc = "loop"
    /\ PageIdle

\* lines 135-156: one pass of the loop over the facet values.  Nothing in
\* add_forecasts catches: an exception of asfreq or of the fit ends the call
FitGroup ==
    /\ fpc = "loop"
    /\ group_i <= Len(unique(df))
    /\ LET illness == unique(df)[group_i]
           rows    == rows_of(df, illness)
       IN  IF has_duplicate_dates(rows)
           THEN /\ raised' = "ValueError"
                /\ fpc' = "raised"
                /\ UNCHANGED <<forecast_dfs, group_i>>
           ELSE \E o \in fit_outcomes(asfreq(rows), Periods) :
                    IF o = "ValueError"
                    THEN /\ raised' = "ValueError"
                         /\ fpc' = "raised"
                         /\ UNCHANGED <<forecast_dfs, group_i>>
                    ELSE /\ forecast_dfs' =
                                Append(forecast_dfs,
                                       forecast_frame(asfreq(rows), illness, o,
                                                      PredictionHorizon))
                         /\ group_i' = group_i + 1
                         /\ UNCHANGED <<raised, fpc>>
    /\ UNCHANGED <<pageVars, tableVars, args, result, hit, closestVars, df, augmented>>

\* lines 158-160: after the loop the frames are concatenated and returned
ConcatForecasts ==
    /\ fpc = "loop"
    /\ group_i > Len(unique(df))
    /\ augmented' = concat(df, forecast_dfs)
    /\ fpc' = "returned"
    /\ UNCHANGED <<pageVars, tableVars, callVars, closestVars, df, forecast_dfs, group_i>>

NextForecast == FitGroup \/ ConcatForecasts

SpecForecast == InitForecast /\ [][NextForecast]_vars

(***************************************************************************)
(* The claims of add_forecasts.                                            *)
(***************************************************************************)
forecast_ended == fpc \in {"returned", "raised"}

\* the number of rows (observations) of a facet value in df
observations(g) == Len(rows_of(df, g))

\* the facet value has too little history for the seasonal model
short(g) == observations(g) < 2 * Periods

\* the forecast rows of a facet value in the returned frame
forecast_rows(g) ==
    {k \in 1..Len(augmented) :
        augmented[k].facet = g /\ augmented[k].y_forecast # NaN}

\* the facet value has enough weeks, without a gap, for the seasonal model
fittable(g) == fit_outcomes(asfreq(rows_of(df, g)), Periods) = {"fitted"}

\* C1 as stated: a call on a frame in which one facet value has fewer than
\* 2 * periods observations, beside one that has enough, raises nothing and
\* returns a frame without forecast rows for the short value, with the
\* prediction_horizon forecast rows of every value that has its 2 * periods
\* weeks without a gap.
C1_ShortGroupSkipped ==
    (/\ forecast_ended
     /\ \E i \in 1..Len(unique(df)) : short(unique(df)[i])
     /\ \E i \in 1..Len(unique(df)) : fittable(unique(df)[i])) =>
        /\ fpc = "returned"
        /\ raised = "none"
        /\ \A i \in 1..Len(unique(df)) :
               LET g == unique(df)[i]
               IN  /\ short(g) =>
                          \A k \in 1..Len(augmented) :
                              augmented[k].facet = g =>
                                  augmented[k].y_forecast = NaN /\ augmented[k].y # NaN
                   /\ fittable(g) =>
                          Cardinality(forecast_rows(g)) = PredictionHorizon

\* the rows of the returned frame that hold a value in the column y, with the
\* column y_forecast removed
historical_rows ==
    LET observed(r) == r.y # NaN
        kept        == SelectSeq(augmented, observed)
    IN  [k \in 1..Len(kept) |->
            [Datum |-> kept[k].Datum, facet |-> kept[k].facet, y |-> kept[k].y]]

last_observed(g) ==
    LET dates == {rows_of(df, g)[k].Datum : k \in 1..Len(rows_of(df, g))}
    IN  CHOOSE d \in dates : \A e \in dates : e <= d

\* the rows that the returned frame has after those of df, for a facet value
appended_rows(g) ==
    LET keep(r) == r.facet = g
    IN  SelectSeq(SubSeq(augmented, Len(df) + 1, Len(augmented)), keep)

\* C12: when add_forecasts returns, every facet value of df has exactly
\* prediction_horizon forecast rows, one sequence per value; their dates are
\* Fridays, one per consecutive week, all after the last date observed for
\* that value, the first of them at most a week after it.
C12_ForecastFollowsGroup ==
    fpc = "returned" =>
        /\ Len(forecast_dfs) = Len(unique(df))
        /\ \A i \in 1..Len(unique(df)) :
               LET g  == unique(df)[i]
                   fr == appended_rows(g)
               IN  /\ Len(fr) = PredictionHorizon
                   /\ \A k \in 1..Len(fr) :
                          /\ fr[k].Datum > last_observed(g)
                          /\ fr[k].Datum % DaysPerWeek = 0
                          /\ k > 1 => fr[k].Datum = fr[k - 1].Datum + DaysPerWeek
                   /\ fr[1].Datum <= last_observed(g) + DaysPerWeek

\* a call has returned the forecasts of two facet values of which one was last
\* observed before the other, so that its forecast begins no later than the
\* last date of the frame
C12_Witness ==
    /\ fpc = "returned"
    /\ \E i, j \in 1..Len(unique(df)) :
           LET g == unique(df)[i]
               h == unique(df)[j]
           IN  /\ last_observed(g) < last_observed(h)
               /\ Len(appended_rows(g)) = PredictionHorizon
               /\ appended_rows(g)[1].Datum <= last_observed(h)

\* the facet value whose pass of the loop produced the row k of the returned
\* frame, a row after those of df
fitted_on(k) == unique(df)[((k - Len(df) - 1) \div PredictionHorizon) + 1]

resampled(i) ==
    \/ i < group_i
    \/ /\ i = group_i
       /\ fpc = "raised"
       /\ ~has_duplicate_dates(rows_of(df, unique(df)[i]))

\* C15 as stated: the series that asfreq makes of a facet value's rows has
\* every one of these rows, at its own date and with its value, and its dates
\* are strictly increasing.
C15_ResamplingKeepsObservations ==
    \A i \in 1..Len(unique(df)) :
        resampled(i) =>
            LET rows   == rows_of(df, unique(df)[i])
                series == asfreq(rows)
            IN  /\ \A k \in 1..Len(rows) :
                       \E j \in 1..Len(series) :
                           /\ series[j].Datum = rows[k].Datum
                           /\ series[j].y = rows[k].y
                /\ \A j \in 2..Len(series) :
                       series[j - 1].Datum < series[j].Datum

(***************************************************************************)
(* The script of src/app.py from the location (lines 23, 96-122) to the    *)
(* site selector of tab2 (lines 248-265).  location is a dict: a function  *)
(* from the keys it has to their values.  The names of provinces, cities   *)
(* and regions are only looked up and compared, and are plain strings; the *)
(* codes of the Bundeslaender are sorted, and are text.                    *)
(***************************************************************************)
\* d[k] = v on a dict
put(d, k, v) == [x \in (DOMAIN d) \cup {k} |-> IF x = k THEN v ELSE d[x]]

\* app.py 48-65
province2short ==
    ("Baden-Württemberg" :> <<"B", "W">>) @@ ("Bavaria" :> <<"B", "Y">>) @@
    ("Berlin" :> <<"B", "E">>) @@ ("Brandenburg" :> <<"B", "B">>) @@
    ("Bremen" :> <<"H", "B">>) @@ ("Hamburg" :> <<"H", "H">>) @@
    ("Hessen" :> <<"H", "E">>) @@ ("Mecklenburg-Vorpommern" :> <<"M", "V">>) @@
    ("Niedersachsen" :> <<"N", "I">>) @@ ("Nordrhein-Westfalen" :> <<"N", "W">>) @@
    ("Rheinland-Pfalz" :> <<"R", "P">>) @@ ("Saarland" :> <<"S", "L">>) @@
    ("Sachsen" :> <<"S", "N">>) @@ ("Sachsen-Anhalt" :> <<"S", "T">>) @@
    ("Schleswig-Holstein" :> <<"S", "H">>) @@ ("Thüringen" :> <<"T", "H">>)

\* a dict of the regions that lacks the code TH
province2region_without_TH ==
    (<<"B", "W">> :> "Sueden") @@ (<<"B", "Y">> :> "Sueden") @@
    (<<"B", "E">> :> "Mitte (West)") @@ (<<"B", "B">> :> "Osten") @@
    (<<"H", "B">> :> "Norden (West)") @@ (<<"H", "H">> :> "Norden (West)") @@
    (<<"H", "E">> :> "Mitte (West)") @@ (<<"M", "V">> :> "Osten") @@
    (<<"N", "I">> :> "Norden (West)") @@ (<<"N", "W">> :> "Mitte (West)") @@
    (<<"R", "P">> :> "Mitte (West)") @@ (<<"S", "L">> :> "Mitte (West)") @@
    (<<"S", "N">> :> "Osten") @@ (<<"S", "T">> :> "Osten") @@
    (<<"S", "H">> :> "Norden (West)")

\* app.py 72-89 and location_manager.py 32-49, the same dict
province2region ==
    (<<"B", "W">> :> "Sueden") @@ (<<"B", "Y">> :> "Sueden") @@
    (<<"B", "E">> :> "Mitte (West)") @@ (<<"B", "B">> :> "Osten") @@
    (<<"H", "B">> :> "Norden (West)") @@ (<<"H", "H">> :> "Norden (West)") @@
    (<<"H", "E">> :> "Mitte (West)") @@ (<<"M", "V">> :> "Osten") @@
    (<<"N", "I">> :> "Norden (West)") @@ (<<"N", "W">> :> "Mitte (West)") @@
    (<<"R", "P">> :> "Mitte (West)") @@ (<<"S", "L">> :> "Mitte (West)") @@
    (<<"S", "N">> :> "Osten") @@ (<<"S", "T">> :> "Osten") @@
    (<<"S", "H">> :> "Norden (West)") @@ (<<"T", "H">> :> "Osten")

\* list.index(x): the 0-based position of the first x of the list, -1 standing
\* for the ValueError of a list without x
index(list, x) ==
    IF \E i \in 1..Len(list) : list[i] = x
    THEN (CHOOSE i \in 1..Len(list) :
              list[i] = x /\ \A j \in 1..(i - 1) : list[j] # x) - 1
    ELSE -1

\* line 251: sorted(abwasser['bundesland'].dropna().unique())
distinct_province_short == sorted_unique(bundesland)

\* lines 244, 252-254: land_index stays 0 unless the user's Bundesland is one
\* of the table
land_index ==
    IF /\ "province_short" \in DOMAIN location
       /\ index(distinct_province_short, location["province_short"]) >= 0
    THEN index(distinct_province_short, location["province_short"])
    ELSE 0

\* lines 259-261: sorted(abwasser[abwasser['bundesland'] ==
\* selected_bundesland]['standort'].dropna().unique())
standorte_of(land) ==
    LET rows    == [k \in 1..Len(standort) |-> k]
        keep(k) == bundesland[k] = land
        kept    == SelectSeq(rows, keep)
    IN  sorted_unique([i \in 1..Len(kept) |-> standort[kept[i]]])

(***************************************************************************)
(* Inputs of the script's specification.                                   *)
(***************************************************************************)
\* what geocoder.ipinfo found for the visitor's address: two visitors in
\* Germany and one abroad
IpinfoResults ==
    { [city |-> "Munich", country |-> "DE", province |-> "Bavaria",
       lat |-> 481, lng |-> 112],
      [city |-> "Stuttgart", country |-> "DE", province |-> "Baden-Württemberg",
       lat |-> 520, lng |-> 130],
      [city |-> "Innsbruck", country |-> "AT", province |-> "Tyrol",
       lat |-> 473, lng |-> 114] }

\* what streamlit_geolocation() returns: the position of the browser, or None
\* for both as long as the visitor has not shared it
BrowserResults ==
    { [latitude |-> 481, longitude |-> 112],
      [latitude |-> 520, longitude |-> 130],
      [latitude |-> None, longitude |-> None] }

\* geocode[0]['admin1'] of rg.search: the name the reverse geocoder's table
\* has for the first-level division around the coordinate, in Germany or not
Admin1Names == {"Bavaria", "Baden-Württemberg", "Tyrol"}

\* the rows of amelag_einzelstandorte.tsv: sites and their Bundesland
AbwasserRows ==
    << [standort |-> sAb, bundesland |-> <<"B", "Y">>],
       [standort |-> sB,  bundesland |-> <<"B", "W">>],
       [standort |-> sD,  bundesland |-> <<"B", "Y">>] >>

\* the tables made of some of these rows
AbwasserTables ==
    LET rows == [k \in 1..Len(AbwasserRows) |-> k]
    IN  { LET keep(k) == k \in S
              kept    == SelectSeq(rows, keep)
          IN  [i \in 1..Len(kept) |-> AbwasserRows[kept[i]]] :
          S \in SUBSET (1..Len(AbwasserRows)) }

(***************************************************************************)
(* The specification of one run of the script.                             *)
(***************************************************************************)
InitPage ==
    /\ file \in SiteFiles
    /\ data = load_dataframe(file)
    /\ args = << >>
    /\ result = << >>
    /\ hit = 0
    /\ raised = "none"
    /\ \E t \in AbwasserTables :
           /\ standort = [k \in 1..Len(t) |-> t[k].standort]
           /\ bundesland = [k \in 1..Len(t) |-> t[k].bundesland]
    /\ location = << >>
    /\ distinct_standorte = << >>
    /\ closest = << >>
    /\ kpc = "idle"
    /\ ForecastIdle
    /\ selected_bundesland = << >>
    /\ klaerwerk_index = 0
    /\ ppc = "ip"
    /\ mpc = "idle"

\* lines 96-111: without a forwarded address the dict stays empty; with one,
\* it gets what ipinfo found or, on ipinfo's error, what the browser gives
IpLocation ==
    /\ ppc = "ip"
    /\ \/ UNCHANGED location
       \/ \E r \in IpinfoResults :
              location' =
                  put(put(put(put(put(location, "city", r.city),
                                  "country", r.country),
                              "province", r.province),
                          "latitude", r.lat),
                      "longitude", r.lng)
       \/ \E b \in BrowserResults :
              location' = put(put(location, "latitude", b.latitude),
                              "longitude", b.longitude)
    /\ ppc' = "province"
    /\ UNCHANGED <<tableVars, callVars, forecastVars, standort,
                   distinct_standorte, closest, kpc, bundesland,
                   selected_bundesland, klaerwerk_index, mpc>>

\* lines 113-118: a dict with latitude and longitude and without province gets
\* the province of rg.search, which raises on a coordinate of None
ReverseGeocode ==
    /\ ppc = "province"
    /\ IF /\ "latitude" \in DOMAIN location
          /\ "longitude" \in DOMAIN location
          /\ "province" \notin DOMAIN location
       THEN IF location["latitude"] = None \/ location["longitude"] = None
            THEN /\ raised' \in {"TypeError", "ValueError"}
                 /\ ppc' = "raised"
                 /\ UNCHANGED location
            ELSE /\ \E a \in Admin1Names : location' = put(location, "province", a)
                 /\ ppc' = "province_short"
                 /\ UNCHANGED raised
       ELSE /\ ppc' = "province_short"
            /\ UNCHANGED <<location, raised>>
    /\ UNCHANGED <<tableVars, args, result, hit, forecastVars, standort,
                   distinct_standorte, closest, kpc, bundesland,
                   selected_bundesland, klaerwerk_index, mpc>>

\* lines 120-122: the two lookups, under no condition
ProvinceShort ==
    /\ ppc = "province_short"
    /\ IF \/ "province" \notin DOMAIN location
          \/ location["province"] \notin DOMAIN province2short
       THEN /\ raised' = "KeyError"
            /\ ppc' = "raised"
            /\ UNCHANGED location
       ELSE LET code  == province2short[location["province"]]
            IN  IF code \notin DOMAIN province2region
                THEN /\ location' = put(location, "province_short", code)
                     /\ raised' = "KeyError"
                     /\ ppc' = "raised"
                ELSE /\ location' = put(put(location, "province_short", code),
                                        "region", province2region[code])
                     /\ ppc' = "bundesland"
                     /\ UNCHANGED raised
    /\ UNCHANGED <<tableVars, args, result, hit, forecastVars, standort,
                   distinct_standorte, closest, kpc, bundesland,
                   selected_bundesland, klaerwerk_index, mpc>>

\* lines 250-258: the selectbox 'Bundesland' returns the option at land_index,
\* or the option the visitor has chosen in an earlier run, or None when there
\* is no option; then find_closest_klaerwerk is called
SelectBundesland ==
    /\ ppc = "bundesland"
    /\ IF Len(distinct_province_short) = 0
       THEN selected_bundesland' = NA
       ELSE \E k \in 1..Len(distinct_province_short) :
                selected_bundesland' = distinct_province_short[k]
    /\ ppc' = "closest"
    /\ kpc' = "call"
    /\ UNCHANGED <<tableVars, callVars, forecastVars, standort, location,
                   distinct_standorte, closest, bundesland, klaerwerk_index, mpc>>

\* lines 259-265: the sites of the selected Bundesland, and among them the
\* position of the closest site, which list.index raises ValueError without
PreselectSite ==
    /\ ppc = "closest"
    /\ kpc = "returned"
    /\ LET i == index(standorte_of(selected_bundesland), closest)
       IN  IF i < 0
           THEN /\ raised' = "ValueError"
                /\ ppc' = "raised"
                /\ UNCHANGED klaerwerk_index
           ELSE /\ klaerwerk_index' = i
                /\ ppc' = "selectbox"
                /\ UNCHANGED raised
    /\ UNCHANGED <<tableVars, args, result, hit, forecastVars, closestVars,
                   bundesland, selected_bundesland, mpc>>

NextPage ==
    \/ IpLocation
    \/ ReverseGeocode
    \/ ProvinceShort
    \/ SelectBundesland
    \/ DistinctStandorte
    \/ GeocodeStandorte
    \/ ComputeDistance
    \/ ClosestKlaerwerk
    \/ PreselectSite

SpecPage == InitPage /\ [][NextPage]_vars

(***************************************************************************)
(* The claim of the script.                                                *)
(***************************************************************************)
\* the run has ended in an exception, of the script's own lines or of
\* find_closest_klaerwerk, which the script does not catch
page_raised == ppc = "raised" \/ (ppc = "closest" /\ kpc = "raised")

\* C14 as stated: no step from the location to the site selector ends the
\* run: without a location, without a closest site, or with a closest site
\* outside the selected Bundesland, the script goes on to the selector.
C14_PageNeverTerminates == ~page_raised

(***************************************************************************)
(* LocationManager, src/location_manager.py.  self.location is the         *)
(* variable location.                                                      *)
(***************************************************************************)
\* location_manager.py 8-25: the keys are spelled without umlaut
manager_province2short ==
    ("Baden-Wurttemberg" :> <<"B", "W">>) @@ ("Bavaria" :> <<"B", "Y">>) @@
    ("Berlin" :> <<"B", "E">>) @@ ("Brandenburg" :> <<"B", "B">>) @@
    ("Bremen" :> <<"H", "B">>) @@ ("Hamburg" :> <<"H", "H">>) @@
    ("Hessen" :> <<"H", "E">>) @@ ("Mecklenburg-Vorpommern" :> <<"M", "V">>) @@
    ("Niedersachsen" :> <<"N", "I">>) @@ ("Nordrhein-Westfalen" :> <<"N", "W">>) @@
    ("Rheinland-Pfalz" :> <<"R", "P">>) @@ ("Saarland" :> <<"S", "L">>) @@
    ("Sachsen" :> <<"S", "N">>) @@ ("Sachsen-Anhalt" :> <<"S", "T">>) @@
    ("Schleswig-Holstein" :> <<"S", "H">>) @@ ("Thuringen" :> <<"T", "H">>)

\* the names a geocoder may give to a province: the keys of the dict, the two
\* names app.py's dict spells with umlaut, and a province abroad
ProvinceNames ==
    (DOMAIN manager_province2short) \cup {"Baden-Württemberg", "Thüringen", "Tyrol"}

\* what geocoder.ipinfo found for the visitor's address: a visitor in a
\* German province, or one abroad
ManagerIpinfoResults ==
    { [city |-> "Ab", country |-> "DE", province |-> p, lat |-> 481, lng |-> 112] :
          p \in ProvinceNames \ {"Tyrol"} }
    \cup
    { [city |-> "Innsbruck", country |-> "AT", province |-> "Tyrol",
       lat |-> 473, lng |-> 114] }

InitManager ==
    /\ file = << >>
    /\ data = << >>
    /\ args = << >>
    /\ result = << >>
    /\ hit = 0
    /\ raised = "none"
    /\ standort = << >>
    /\ location = << >>
    /\ distinct_standorte = << >>
    /\ closest = << >>
    /\ kpc = "idle"
    /\ ForecastIdle
    /\ bundesland = << >>
    /\ selected_bundesland = << >>
    /\ klaerwerk_index = 0
    /\ ppc = "idle"
    /\ mpc = "ip"

\* lines 107-113: the browser's position, or None for both
get_location_from_browser ==
    \E b \in BrowserResults :
        location' = put(put(location, "latitude", b.latitude),
                        "longitude", b.longitude)

\* lines 82-101: with an address that ipinfo places in Germany the dict gets
\* ipinfo's five values, with one it places abroad nothing; without an
\* address, or on ipinfo's error, the browser is asked
LocateByIp ==
    /\ mpc = "ip"
    /\ \/ get_location_from_browser
       \/ \E r \in ManagerIpinfoResults :
              IF r.country = "DE"
              THEN location' =
                       put(put(put(put(put(location, "city", r.city),
                                       "country", r.country),
                                   "province", r.province),
                               "latitude", r.lat),
                           "longitude", r.lng)
              ELSE UNCHANGED location
    /\ mpc' = "add_province"
    /\ UNCHANGED <<tableVars, callVars, forecastVars, standort,
                   distinct_standorte, closest, kpc, bundesland,
                   selected_bundesland, klaerwerk_index, ppc>>

\* lines 115-126: a dict with a latitude and a longitude that are not None and
\* without province gets the province of rg.search
add_province ==
    /\ mpc = "add_province"
    /\ IF /\ "latitude" \in DOMAIN location
          /\ location["latitude"] # None
          /\ "longitude" \in DOMAIN location
          /\ location["longitude"] # None
          /\ "province" \notin DOMAIN location
       THEN \E a \in ProvinceNames : location' = put(location, "province", a)
       ELSE UNCHANGED location
    /\ mpc' = "add_province_short"
    /\ UNCHANGED <<tableVars, callVars, forecastVars, standort,
                   distinct_standorte, closest, kpc, bundesland,
                   selected_bundesland, klaerwerk_index, ppc>>

\* lines 128-135 and 104-105: with a province in the dict the two lookups, of
\* which the first assigns before the second is made; a KeyError leaves
\* __init__
add_province_short ==
    /\ mpc = "add_province_short"
    /\ IF "province" \notin DOMAIN location
       THEN /\ mpc' = "constructed"
            /\ UNCHANGED <<location, raised>>
       ELSE IF location["province"] \notin DOMAIN manager_province2short
       THEN /\ raised' = "KeyError"
            /\ mpc' = "raised"
            /\ UNCHANGED location
       ELSE LET code == manager_province2short[location["province"]]
            IN  IF code \notin DOMAIN province2region
                THEN /\ location' = put(location, "province_short", code)
                     /\ raised' = "KeyError"
                     /\ mpc' = "raised"
                ELSE /\ location' = put(put(location, "province_short", code),
                                        "region", province2region[code])
                     /\ mpc' = "constructed"
                     /\ UNCHANGED raised
    /\ UNCHANGED <<tableVars, args, result, hit, forecastVars, standort,
                   distinct_standorte, closest, kpc, bundesland,
                   selected_bundesland, klaerwerk_index, ppc>>

NextManager == LocateByIp \/ add_province \/ add_province_short

SpecManager == InitManager /\ [][NextManager]_vars

(***************************************************************************)
(* The claim of LocationManager.                                           *)
(***************************************************************************)
has(k) == k \in DOMAIN location

\* C16: a constructed LocationManager has province_short and region in its
\* location exactly when it has province, and then province is a key of
\* province2short, province_short its value, and region the value of
\* province2region for province_short; a construction that failed, failed on
\* a province that is not a key of province2short, before anything was
\* added for it; and every value of province2short is a key of province2region.
C16_ShortAndRegionWithProvince ==
    /\ mpc = "constructed" =>
           /\ has("province_short") <=> has("province")
           /\ has("region") <=> has("province")
           /\ has("province") =>
                  /\ location["province"] \in DOMAIN manager_province2short
                  /\ location["province_short"] =
                         manager_province2short[location["province"]]
                  /\ location["region"] =
                         province2region[location["province_short"]]
    /\ mpc = "raised" =>
           /\ has("province")
           /\ location["province"] \notin DOMAIN manager_province2short
           /\ ~has("province_short")
           /\ ~has("region")
    /\ \A p \in DOMAIN manager_province2short :
           manager_province2short[p] \in DOMAIN province2region

\* a LocationManager has been constructed with the province the reverse
\* geocoder found for the browser's position
C16_Witness ==
    /\ mpc = "constructed"
    /\ has("province")
    /\ ~has("city")
    /\ has("region")

\* a construction has failed on a province that is not a key
C16_WitnessUnknownProvince ==
    /\ mpc = "raised"
    /\ has("province")

\* a LocationManager has been constructed without a province
C16_WitnessNoProvince ==
    /\ mpc = "constructed"
    /\ ~has("province")

====
